---- MODULE Spec2Model ----
(***************************************************************************)
(* Model of propsProblem.cpp: the heterogeneous property store             *)
(* (Properties, BaseProperty, Property<T>) and the Bounds value type.      *)
(*                                                                         *)
(* A call of Properties::set or Properties::get is one atomic action; the  *)
(* call just made, with its locals and its outcome, is kept in lastOp so   *)
(* that properties can speak about what the caller observed.               *)
(***************************************************************************)
EXTENDS Integers, FiniteSets, TLC

\* ------------------------------------------------------------------ bounds
MaxEnumVal == 1      \* enum members with underlying value 0..MaxEnumVal are used as ids
MaxVal     == 1      \* stored values have underlying value 0..MaxVal
HashSpace  == 64     \* range of the modelled non-identity std::hash
MaxSets    == 2      \* calls of Properties::set in one run
MaxCoord   == 3      \* Bounds origin and query points range over -1..MaxCoord
MaxSize    == 2      \* Bounds width and height range over 0..MaxSize

VARIABLES
    mProperties,   \* Properties::mProperties: key -> cell, a function on the keys present
    lastOp,        \* the last call on the store: arguments, locals, outcome
    everSet,       \* history: identifiers passed to Properties::set so far
    numSets,       \* history: number of Properties::set calls so far
    hashImpl,      \* which std::hash the standard library provides
    bounds,        \* a Bounds object
    containsOp     \* the last Bounds::contains call and its result

vars == <<mProperties, lastOp, everSet, numSets, hashImpl, bounds, containsOp>>

\* ------------------------------------------------------------ identifiers
\* Two of the property-id enumerations with the underlying values of their
\* members (declaration order, starting at 0).
EnumMembers(ns) ==
    CASE ns = "CommonPropertyId"   -> 0..2   \* Invalid, HealthPoints, Bounds
      [] ns = "BuildingPropertyId" -> 0..2   \* Invalid, BuildingType, Bounds

EnumNames == {"CommonPropertyId", "BuildingPropertyId"}

EnumIds == UNION { [shape : {"enum"}, ns : {ns},
                    val : {m \in EnumMembers(ns) : m <= MaxEnumVal}] : ns \in EnumNames }

\* Identifiers taking the std::is_trivial branch: the int 1.
TrivialIds == [shape : {"trivial"}, ns : {"int"}, val : {1}]

\* Identifiers taking the final else branch: one std::string.
NonTrivialIds == [shape : {"nontrivial"}, ns : {"std::string"}, val : {0}]

Ids == EnumIds \cup TrivialIds \cup NonTrivialIds

\* sizeof(IdType) for the non-trivial identifier type.
SizeOf(ns) == CASE ns = "std::string" -> 32

\* ------------------------------------------------------------------ values
\* A value is its static type and its underlying number.
ValueTypes == {"BuildingType", "int"}
Values == [type : ValueTypes, v : 0..MaxVal]
NoValue == [type |-> "none", v |-> 0]
\* Fallbacks passed to get: one value of each type.
Fallbacks == [type : ValueTypes, v : {MaxVal}]

\* ------------------------------------------------------------------- hash
\* std::hash of an integral value: the identity (libstdc++, libc++) or a
\* mixing function (MSVC's FNV-1a), here a small non-identity stand-in.
Hash(x) == IF hashImpl = "identity" THEN x ELSE (x * 5 + 3) % HashSpace

\* Mutant: the enum branch hashes per enumeration (a type-specific hash).
SetKey_PerEnum(id) ==
    CASE id.shape = "enum"       ->
            Hash(id.val + (IF id.ns = "BuildingPropertyId" THEN 16 ELSE 0))
      [] id.shape = "trivial"    -> Hash(id.val)
      [] id.shape = "nontrivial" -> Hash(SizeOf(id.ns))

\* Key computed by Properties::set, per if-constexpr branch.
SetKey(id) ==
    CASE id.shape = "enum"       -> Hash(id.val)
      [] id.shape = "trivial"    -> Hash(id.val)
      [] id.shape = "nontrivial" -> Hash(SizeOf(id.ns))

\* Key looked up by Properties::get, per if-constexpr branch. The trivial
\* branch is std::hash<size_t>{}(std::hash(id)): the hash of the hash.
GetKey(id) ==
    CASE id.shape = "enum"       -> Hash(id.val)
      [] id.shape = "trivial"    -> Hash(Hash(id.val))
      [] id.shape = "nontrivial" -> Hash(SizeOf(id.ns))

\* ------------------------------------------------------------------ cells
\* Property<T>(obj): a cell holding obj; its type is T for good.
NewProperty(value) == [type |-> value.type, v |-> value.v]
NoCell == [type |-> "none", v |-> 0]

\* std::optional<T>
Nullopt == [has |-> FALSE, val |-> NoValue]
Some(value) == [has |-> TRUE, val |-> value]

\* BaseProperty::get<T>(): called through the shared_ptr<BaseProperty>
\* handle; it is not virtual, so it is the one that runs for every cell.
BasePropertyGet(cell, T) == Nullopt

\* Property<T>::get<T'>(): returns mObj. Never reached from the store.
PropertyGet(cell, T) == Some([type |-> T, v |-> cell.v])

\* std::optional::value(): the value, or throws std::bad_optional_access.
OptionalValue(opt) ==
    IF opt.has THEN [outcome |-> "returned", ret |-> Some(opt.val)]
    ELSE [outcome |-> "threw", ret |-> Nullopt]

\* Mutant: the comparison with end() is missing.
PropertiesGet_NoEndCheck(props, id, T) ==
    OptionalValue(BasePropertyGet(NoCell, T))

\* Properties::get<IdType, ValueType>(id): the optional form.
PropertiesGet(props, id, T) ==
    IF GetKey(id) \in DOMAIN props
    THEN OptionalValue(BasePropertyGet(props[GetKey(id)], T))
    ELSE [outcome |-> "returned", ret |-> Nullopt]

\* Properties::get<IdType, ValueType>(id, fallback): the possible results.
\* With a value present it returns a reference to the local optional's
\* value, which is dead at return: any value of the type may be read.
PropertiesGetFallback(props, id, fallback) ==
    LET value == PropertiesGet(props, id, fallback.type) IN
    IF value.outcome = "threw" THEN {value}
    ELSE IF ~value.ret.has
         THEN {[outcome |-> "returned", ret |-> Some(fallback)]}
         ELSE {[outcome |-> "returned", ret |-> Some(x)] :
                  x \in {y \in Values : y.type = fallback.type}}

\* Mutant: the map is assigned the one new entry.
PropertiesSet_Assign(props, id, value) ==
    [k \in {SetKey(id)} |-> NewProperty(value)]

\* Mutant: the new cell is stored at every key.
PropertiesSet_Clobber(props, id, value) ==
    [k \in DOMAIN props \cup {SetKey(id)} |-> NewProperty(value)]

\* Properties::set: the map after the call. unordered_map::insert.
PropertiesSet(props, id, value) ==
    IF SetKey(id) \in DOMAIN props
    THEN props
    ELSE [k \in DOMAIN props \cup {SetKey(id)} |->
            IF k = SetKey(id) THEN NewProperty(value) ELSE props[k]]

\* ----------------------------------------------------------------- Bounds
NewBoundsObj(x, y, width, height) ==
    [mX |-> x, mY |-> y, mWidth |-> width, mHeight |-> height]

\* Mutant: the upper edges are exclusive.
BoundsContains_Exclusive(b, x, y) ==
    x >= b.mX /\ x < b.mX + b.mWidth /\ y >= b.mY /\ y < b.mY + b.mHeight

BoundsContains(b, x, y) ==
    x >= b.mX /\ x <= b.mX + b.mWidth /\ y >= b.mY /\ y <= b.mY + b.mHeight

Coords == (-1)..MaxCoord
Sizes  == 0..MaxSize

\* ------------------------------------------------------------------- Init
NoOp == [op |-> "none", id |-> [shape |-> "none", ns |-> "none", val |-> 0],
         arg |-> NoValue, type |-> "none", key |-> 0, found |-> FALSE,
         cell |-> NoCell, outcome |-> "none", ret |-> Nullopt]

NoContains == [called |-> FALSE, x |-> 0, y |-> 0, result |-> FALSE]

Init ==
    /\ mProperties = <<>>
    /\ lastOp = NoOp
    /\ everSet = {}
    /\ numSets = 0
    /\ hashImpl \in {"identity", "mixing"}
    /\ bounds = NewBoundsObj(0, 0, 2, 2)
    /\ containsOp = NoContains

\* ---------------------------------------------------------------- actions
Set(id, value) ==
    /\ numSets < MaxSets
    /\ numSets' = numSets + 1
    /\ mProperties' = PropertiesSet(mProperties, id, value)
    /\ everSet' = everSet \cup {id}
    /\ lastOp' = [op |-> "set", id |-> id, arg |-> value, type |-> value.type,
                  key |-> SetKey(id), found |-> SetKey(id) \in DOMAIN mProperties,
                  cell |-> NoCell, outcome |-> "returned", ret |-> Nullopt]
    /\ UNCHANGED <<hashImpl, bounds, containsOp>>

FoundCell(id) ==
    IF GetKey(id) \in DOMAIN mProperties THEN mProperties[GetKey(id)] ELSE NoCell

GetOptional(id, T) ==
    /\ LET r == PropertiesGet(mProperties, id, T) IN
       lastOp' = [op |-> "getOptional", id |-> id, arg |-> NoValue, type |-> T,
                  key |-> GetKey(id), found |-> GetKey(id) \in DOMAIN mProperties,
                  cell |-> FoundCell(id), outcome |-> r.outcome, ret |-> r.ret]
    /\ UNCHANGED <<mProperties, everSet, numSets, hashImpl, bounds, containsOp>>

GetFallback(id, fallback) ==
    /\ \E r \in PropertiesGetFallback(mProperties, id, fallback) :
       lastOp' = [op |-> "getFallback", id |-> id, arg |-> fallback,
                  type |-> fallback.type,
                  key |-> GetKey(id), found |-> GetKey(id) \in DOMAIN mProperties,
                  cell |-> FoundCell(id), outcome |-> r.outcome, ret |-> r.ret]
    /\ UNCHANGED <<mProperties, everSet, numSets, hashImpl, bounds, containsOp>>

NewBounds(x, y, width, height) ==
    /\ bounds' = NewBoundsObj(x, y, width, height)
    /\ containsOp' = NoContains
    /\ UNCHANGED <<mProperties, lastOp, everSet, numSets, hashImpl>>

Contains(x, y) ==
    /\ containsOp' = [called |-> TRUE, x |-> x, y |-> y,
                      result |-> BoundsContains(bounds, x, y)]
    /\ UNCHANGED <<mProperties, lastOp, everSet, numSets, hashImpl, bounds>>

DoSet == \E id \in Ids, value \in Values : Set(id, value)
DoGetOptional == \E id \in Ids, T \in ValueTypes : GetOptional(id, T)
DoGetFallback == \E id \in Ids, fallback \in Fallbacks : GetFallback(id, fallback)
DoNewBounds == \E x \in Coords, y \in Coords, w \in Sizes, h \in Sizes : NewBounds(x, y, w, h)
DoContains == \E x \in Coords, y \in Coords : Contains(x, y)

Next == DoSet \/ DoGetOptional \/ DoGetFallback

Spec == Init /\ [][Next]_vars

NextBounds == DoNewBounds \/ DoContains

SpecBounds == Init /\ [][NextBounds]_vars

\* ================================================================== claims
IsGet == lastOp.op \in {"getOptional", "getFallback"}

\* What a get that finds nothing hands back: empty, or the fallback.
AbsentResult(op) == IF op.op = "getOptional" THEN Nullopt ELSE Some(op.arg)

\* The stored cell and the requested type differ.
Mismatch(op) == op.found /\ op.cell.type # op.type

\* Two enum identifiers of different enumerations with one underlying value.
Collide(a, b) ==
    a.shape = "enum" /\ b.shape = "enum" /\ a.ns # b.ns /\ a.val = b.val

\* C1 (as claimed): a get of the type of v that directly follows set(id, v)
\* returns normally and yields v, in the optional and in the fallback form.
C1_RoundTrip ==
    [][ (lastOp.op = "set" /\ lastOp'.op \in {"getOptional", "getFallback"}
           /\ lastOp'.id = lastOp.id /\ lastOp'.type = lastOp.arg.type)
        => (lastOp'.outcome = "returned" /\ lastOp'.ret = Some(lastOp.arg)) ]_vars

\* C2 (as claimed): after set(id, v) the entry at the identifier's key holds v,
\* whether or not the key held an entry before.
C2_Overwrite ==
    lastOp.op = "set" =>
        /\ lastOp.key \in DOMAIN mProperties
        /\ mProperties[lastOp.key] = NewProperty(lastOp.arg)

C4_MismatchFallback ==
    (IsGet /\ Mismatch(lastOp)) =>
        (lastOp.outcome = "returned" /\ lastOp.ret = AbsentResult(lastOp))

\* C5 (as claimed): a get fails to return exactly when it finds a cell of
\* another type than the one requested; never for an absent key or for a get
\* of the stored type.
C5_MismatchFailFast ==
    IsGet => ((lastOp.outcome # "returned") <=> Mismatch(lastOp))

\* C6: enum identifiers of different enumerations with the same underlying
\* value address one slot: a get under B::n right after set(A::m, v) on the
\* empty store finds the cell that set stored, and sets under identifiers
\* that all share one underlying value leave exactly one entry.
C6_NamespaceCollision ==
    [][ /\ (lastOp.op = "set" /\ numSets = 1 /\ Collide(lastOp.id, lastOp'.id)
              /\ lastOp'.op \in {"getOptional", "getFallback"})
           => (lastOp'.found /\ lastOp'.key = lastOp.key
                 /\ lastOp'.cell = NewProperty(lastOp.arg))
        /\ (everSet' # {} /\ \A a, b \in everSet' : a = b \/ Collide(a, b))
           => Cardinality(DOMAIN mProperties') = 1 ]_vars

C6_Witness ==
    /\ IsGet /\ lastOp.found /\ numSets = 1
    /\ \E a \in everSet : Collide(a, lastOp.id)

\* C7: contains is true exactly for the points within the closed rectangle,
\* both edges of both axes included; the four cases of Bounds(0,0,2,2).
C7_ContainsInclusive ==
    containsOp.called =>
        /\ containsOp.result =
              (/\ bounds.mX <= containsOp.x
               /\ containsOp.x <= bounds.mX + bounds.mWidth
               /\ bounds.mY <= containsOp.y
               /\ containsOp.y <= bounds.mY + bounds.mHeight)
        /\ bounds = NewBoundsObj(0, 0, 2, 2) =>
              /\ (containsOp.x = 0 /\ containsOp.y = 0) => containsOp.result
              /\ (containsOp.x = 2 /\ containsOp.y = 2) => containsOp.result
              /\ (containsOp.x = 3 /\ containsOp.y = 3) => ~containsOp.result
              /\ (containsOp.x = -1 /\ containsOp.y = 0) => ~containsOp.result

C7_Witness ==
    /\ bounds = NewBoundsObj(0, 0, 2, 2) /\ containsOp.called
    /\ containsOp.x = 2 /\ containsOp.y = 2 /\ containsOp.result

\* C8 (as claimed): get looks up the key under which set inserts the same
\* identifier, so a get of an identifier passed to set finds an entry.
C8_KeyAgreement ==
    IsGet =>
        /\ lastOp.key = SetKey(lastOp.id)
        /\ lastOp.id \in everSet => lastOp.found

\* C9: no step removes a key from the mapping.
C9_NeverShrinks ==
    [][DOMAIN mProperties \subseteq DOMAIN mProperties']_vars

C9_Witness ==
    /\ lastOp.op = "set" /\ numSets = MaxSets
    /\ Cardinality(DOMAIN mProperties) >= 2

\* C10: set changes the mapping at most at the key of its identifier, so
\* every get under another key gives the same result before and after;
\* get, in both forms, leaves the mapping as it is.
C10_Frame ==
    [][ /\ (lastOp'.op = "set" /\ numSets' # numSets) =>
              /\ \A k \in DOMAIN mProperties : k # lastOp'.key =>
                    (k \in DOMAIN mProperties' /\ mProperties'[k] = mProperties[k])
              /\ \A k \in DOMAIN mProperties' : k # lastOp'.key =>
                    k \in DOMAIN mProperties
              /\ \A id \in Ids, T \in ValueTypes : GetKey(id) # lastOp'.key =>
                    PropertiesGet(mProperties', id, T) = PropertiesGet(mProperties, id, T)
        /\ lastOp'.op \in {"getOptional", "getFallback"} =>
              mProperties' = mProperties ]_vars

C10_Witness ==
    /\ lastOp.op = "set" /\ ~lastOp.found
    /\ Cardinality(DOMAIN mProperties) = 2
====
